---- MODULE Spec2Model ----
(***************************************************************************)
(* Model of import.py: the Safe In Cloud XML -> `op item create` importer. *)
(* Text is modelled as a sequence of one-character strings, bytes as a     *)
(* sequence of integers in 0..255.                                         *)
(***************************************************************************)
EXTENDS Integers, Sequences, FiniteSets, TLC

\* None where text is expected, Absent for a missing enumerated attribute
None == <<"None">>
Absent == "absent"
NoExc == "none"

\* ------------------------------------------------------------------ bounds
MaxCards == 2
MaxTokens == 3

\* --------------------------------------------------------- text primitives
UpperCase == <<"A","B","C","D","E","F","G","H","I","J","K","L","M","N","O","P","Q","R","S","T","U","V","W","X","Y","Z">>
LowerCase == <<"a","b","c","d","e","f","g","h","i","j","k","l","m","n","o","p","q","r","s","t","u","v","w","x","y","z">>
Digits == <<"0","1","2","3","4","5","6","7","8","9">>

Range(s) == {s[i] : i \in 1..Len(s)}

IsSpace(c) == c \in {" ", "\t", "\n", "\r"}

\* [a-z0-9] of the regular expression at line 31
IsLowerAlnum(c) == c \in Range(LowerCase) \cup Range(Digits)

\* \w of the regular expression at line 48
IsWord(c) == c \in Range(LowerCase) \cup Range(UpperCase) \cup Range(Digits) \cup {"_"}

LowerChar(c) ==
  IF c \in Range(UpperCase)
    THEN LowerCase[CHOOSE i \in 1..26 : UpperCase[i] = c]
    ELSE c

\* str.lower()
lower(s) == [i \in 1..Len(s) |-> LowerChar(s[i])]

Min(S) == CHOOSE x \in S : \A y \in S : x <= y
Max(S) == CHOOSE x \in S : \A y \in S : x >= y

\* str.strip(): from the first to the last character that is not white space
strip(s) ==
  LET solid == {i \in 1..Len(s) : ~IsSpace(s[i])} IN
  IF solid = {} THEN <<>> ELSE SubSeq(s, Min(solid), Max(solid))

\* "sub in s": the first position from i on where sub occurs, if any
RECURSIVE ContainsFrom(_, _, _)
ContainsFrom(s, sub, i) ==
  IF i + Len(sub) - 1 > Len(s) THEN FALSE
  ELSE IF SubSeq(s, i, i + Len(sub) - 1) = sub THEN TRUE
  ELSE ContainsFrom(s, sub, i + 1)

Contains(s, sub) == ContainsFrom(s, sub, 1)

\* str.replace(c, rep) for a one-character pattern, over s[lo..hi]
RECURSIVE ReplaceIn(_, _, _, _, _)
ReplaceIn(s, c, rep, lo, hi) ==
  IF lo > hi THEN <<>>
  ELSE IF lo = hi THEN (IF s[lo] = c THEN rep ELSE <<s[lo]>>)
  ELSE LET mid == (lo + hi) \div 2 IN
       ReplaceIn(s, c, rep, lo, mid) \o ReplaceIn(s, c, rep, mid + 1, hi)

Replace(s, c, rep) == ReplaceIn(s, c, rep, 1, Len(s))

\* sep.join(parts)
RECURSIVE Join(_, _)
Join(sep, parts) ==
  IF parts = <<>> THEN <<>>
  ELSE IF Len(parts) = 1 THEN parts[1]
  ELSE parts[1] \o sep \o Join(sep, Tail(parts))

\* str(n) for a positive integer
RECURSIVE IntToStr(_)
IntToStr(n) ==
  IF n < 10 THEN <<Digits[n + 1]>>
  ELSE IntToStr(n \div 10) \o <<Digits[(n % 10) + 1]>>

\* ------------------------------------------------- custom_field_type_for
\* re.search(r"(^|[^a-z0-9])pin([^a-z0-9]|$)", n), tried at each position
RECURSIVE SearchPin(_, _)
SearchPin(n, i) ==
  IF i + 2 > Len(n) THEN FALSE
  ELSE IF /\ SubSeq(n, i, i + 2) = <<"p","i","n">>
          /\ (i = 1 \/ ~IsLowerAlnum(n[i - 1]))
          /\ (i + 2 = Len(n) \/ ~IsLowerAlnum(n[i + 3]))
    THEN TRUE
  ELSE SearchPin(n, i + 1)

custom_field_type_for_swapped(name) ==
  LET n == lower(strip(name)) IN
  IF Contains(n, <<"p","a","s","s","w","o","r","d">>) \/ SearchPin(n, 1) \/ Contains(n, <<"s","e","c","r","e","t">>)
    THEN <<"p","a","s","s","w","o","r","d">>
  ELSE IF Contains(n, <<"e","m","a","i","l">>) THEN <<"e","m","a","i","l">>
  ELSE IF Contains(n, <<"w","e","b","s","i","t","e">>) THEN <<"u","r","l">>
  ELSE <<"t","e","x","t">>

custom_field_type_for(name) ==
  LET n == lower(strip(name)) IN
  IF Contains(n, <<"e","m","a","i","l">>) THEN <<"e","m","a","i","l">>
  ELSE IF Contains(n, <<"p","a","s","s","w","o","r","d">>) \/ SearchPin(n, 1) \/ Contains(n, <<"s","e","c","r","e","t">>)
    THEN <<"p","a","s","s","w","o","r","d">>
  ELSE IF Contains(n, <<"w","e","b","s","i","t","e">>) THEN <<"u","r","l">>
  ELSE <<"t","e","x","t">>

\* ------------------------------------------------------------- is_blank
is_blank(s) == s = None \/ strip(s) = <<>>

\* ------------------------------------------------ escape_assignment_name
escape_assignment_name_no_period(s) ==
  Replace(Replace(s, "\\", <<"\\","\\">>), "=", <<"\\","=">>)

escape_assignment_name(s) ==
  Replace(Replace(Replace(s, "\\", <<"\\","\\">>), ".", <<"\\",".">>), "=", <<"\\","=">>)

\* -------------------------------------------------------- safe_filename
max_len == 80

\* re.sub(r"[^\w.\-]+", "_", s): every maximal run of characters outside
\* [\w.-] becomes one underscore
IsKept(c) == IsWord(c) \/ c \in {".", "-"}

RECURSIVE SubRunsIn(_, _, _)
SubRunsIn(s, lo, hi) ==
  IF lo > hi THEN <<>>
  ELSE IF lo = hi
    THEN IF IsKept(s[lo]) THEN <<s[lo]>>
         ELSE IF lo > 1 /\ ~IsKept(s[lo - 1]) THEN <<>>
         ELSE <<"_">>
  ELSE LET mid == (lo + hi) \div 2 IN
       SubRunsIn(s, lo, mid) \o SubRunsIn(s, mid + 1, hi)

SubRuns(s) == SubRunsIn(s, 1, Len(s))

Truncate(s, n) == IF Len(s) > n THEN SubSeq(s, 1, n) ELSE s

safe_filename(s) ==
  LET t == Truncate(SubRuns(strip(s)), max_len) IN
  IF t = <<>> THEN <<"a","t","t","a","c","h","m","e","n","t">> ELSE t

\* ------------------------------------------------------ guess_extension
startswith(data, prefix) ==
  Len(data) >= Len(prefix) /\ SubSeq(data, 1, Len(prefix)) = prefix

PNG_MAGIC == <<137, 80, 78, 71, 13, 10, 26, 10>>
JPEG_MAGIC == <<255, 216, 255>>
GIF87_MAGIC == <<71, 73, 70, 56, 55, 97>>
GIF89_MAGIC == <<71, 73, 70, 56, 57, 97>>
PDF_MAGIC == <<37, 80, 68, 70, 45>>

guess_extension(data) ==
  IF startswith(data, PNG_MAGIC) THEN <<".","p","n","g">>
  ELSE IF startswith(data, JPEG_MAGIC) THEN <<".","j","p","g">>
  ELSE IF startswith(data, GIF87_MAGIC) \/ startswith(data, GIF89_MAGIC) THEN <<".","g","i","f">>
  ELSE IF startswith(data, PDF_MAGIC) THEN <<".","p","d","f">>
  ELSE <<".","p","n","g">>

\* ------------------------------------------------ decode_base64_payload
B64Alphabet ==
  UpperCase \o LowerCase \o Digits \o <<"+","/">>

B64Value(c) == (CHOOSE i \in 1..64 : B64Alphabet[i] = c) - 1

\* binascii.a2b_base64 as base64.b64decode calls it: one pass over the
\* characters keeping the position in the current quad, the pending bits and
\* the padding count.  strict is validate=True.
RECURSIVE A2B(_, _, _, _, _, _, _, _)
A2B(s, i, strict, quad, left, pads, padStarted, out) ==
  IF i > Len(s)
    THEN [ok |-> quad = 0, data |-> out]
  ELSE IF s[i] = "="
    THEN IF strict /\ i = 1 THEN [ok |-> FALSE, data |-> out]
         ELSE IF quad >= 2 /\ quad + pads + 1 >= 4
           THEN IF strict /\ i < Len(s) THEN [ok |-> FALSE, data |-> out]
                ELSE [ok |-> TRUE, data |-> out]
         ELSE A2B(s, i + 1, strict, quad, left,
                  IF quad >= 2 THEN pads + 1 ELSE pads, TRUE, out)
  ELSE IF s[i] \notin Range(B64Alphabet)
    THEN IF strict THEN [ok |-> FALSE, data |-> out]
         ELSE A2B(s, i + 1, strict, quad, left, pads, padStarted, out)
  ELSE IF strict /\ padStarted THEN [ok |-> FALSE, data |-> out]
  ELSE LET v == B64Value(s[i]) IN
       CASE quad = 0 -> A2B(s, i + 1, strict, 1, v, 0, padStarted, out)
         [] quad = 1 -> A2B(s, i + 1, strict, 2, v % 16, 0, padStarted,
                            Append(out, left * 4 + v \div 16))
         [] quad = 2 -> A2B(s, i + 1, strict, 3, v % 4, 0, padStarted,
                            Append(out, left * 16 + v \div 4))
         [] quad = 3 -> A2B(s, i + 1, strict, 0, 0, 0, padStarted,
                            Append(out, left * 64 + v))

b64decode(s, validate) == A2B(s, 1, validate, 0, 0, 0, FALSE, <<>>)

\* "".join(b64.split())
RemoveSpace(s) == SelectSeq(s, LAMBDA c : ~IsSpace(c))

decode_base64_payload(b64) ==
  LET b64_compact == RemoveSpace(b64)
      first == b64decode(b64_compact, TRUE) IN
  IF first.ok THEN first
  ELSE b64decode(b64_compact \o <<"=","=","=">>, FALSE)

\* ------------------------------------------------------- export document
\* An element of the tree: its tag, the attributes the importer reads and its
\* text.  An absent attribute or text is None.
Elem(tag, type, name, text) ==
  [tag |-> tag, type |-> type, name |-> name, text |-> text]

Field(type, name, text) == Elem("field", type, name, text)
Notes(text) == Elem("notes", Absent, None, text)
LabelId(text) == Elem("label_id", Absent, None, text)
Image(text) == Elem("image", Absent, None, text)
File(name, text) == Elem("file", Absent, name, text)

Card(title, deleted, template, children) ==
  [title |-> title, deleted |-> deleted, template |-> template,
   children |-> children]

Rep(c, n) == [i \in 1..n |-> c]

PngA == <<"i","V","B","O","R","w","0","K","G","g","o","=">>
PngB == <<"i","V","B","O"," ","R","w","0","K","\n","G","g","p","C">>
JpegUnpadded == <<"/","9","j","/","Q","Q">>
GifJunk == <<"R","0","l","G","O","D","l","h","!">>
Undecodable == <<"A">>
LongTitle == Rep("a", max_len)

BankCard ==
  Card(<<"B","a","n","k">>, Absent, Absent,
       << Field("login", <<"L","o","g","i","n">>, <<"a","l","i","c","e">>),
          Field("password", <<"P","a","s","s","w","o","r","d">>, <<"s","3","c","r","3","t">>),
          Field("website", <<"W","e","b","s","i","t","e">>, <<"h","t","t","p","s",":","/","/","b","a","n","k",".","e","x","a","m","p","l","e">>),
          Field(Absent, <<"P","I","N">>, <<"1","2","3","4">>),
          Image(PngA) >>)

DeletedCard ==
  Card(<<"O","l","d">>, "true", Absent,
       << Field("login", <<"L","o","g","i","n">>, <<"z","e","d">>),
          Image(Undecodable),
          File(<<"x",".","b","i","n">>, PngA) >>)

TemplateCard ==
  Card(<<" ","T","p","l"," ">>, "false", "true",
       << Field("login", <<"L","o","g","i","n">>, None),
          Field(Absent, <<"C","o","d","e">>, <<"x">>),
          Field(Absent, <<"E","-","m","a","i","l">>, None) >>)

DupCard ==
  Card(None, "false", "false",
       << LabelId(<<"g","1">>),
          Field("login", <<"L","o","g","i","n">>, None),
          Field("login", <<"L","o","g","i","n"," ","2">>, <<"b","o","b">>),
          Field("password", <<"P","a","s","s",".","1">>, <<" ">>),
          Field("password", <<"P","a","s","s","=","2">>, <<"p","2">>),
          Field("website", <<"S","i","t","e">>, None),
          Field("website", <<"W","e","b","s","i","t","e"," ","2">>, <<"w",".","x">>),
          Field(Absent, <<" ">>, <<"v">>),
          Field(Absent, <<"m","y"," ","e","m","a","i","l">>, <<" ">>),
          Notes(<<"n","=","1">>) >>)

PicsCard ==
  Card(<<"M","y"," ","P","i","c","s","!">>, Absent, Absent,
       << Image(PngA),
          Image(<<" ","\n">>),
          Image(JpegUnpadded),
          File(<<"a"," ","b","\\","c",".","t","x","t">>, GifJunk),
          File(None, PngB),
          Notes(None),
          LabelId(<<"g","2">>) >>)

LongCard ==
  Card(LongTitle, Absent, Absent,
       << Field("website", None, <<" ">>),
          Image(PngA),
          Image(PngB) >>)

BadImageCard ==
  Card(<<"B","a","d">>, Absent, Absent,
       << Field("login", <<"L","o","g","i","n">>, <<"e","v","e">>),
          Image(PngA),
          Image(Undecodable) >>)

DotFileCard ==
  Card(<<>>, Absent, Absent,
       << File(<<".">>, PngA) >>)

CardPool ==
  {BankCard, DeletedCard, TemplateCard, DupCard, PicsCard, LongCard,
   BadImageCard, DotFileCard}

Label(id, name) == [id |-> id, name |-> name]

LabelSets ==
  { <<>>,
    << Label(<<"g","1">>, <<"W","o","r","k">>), Label(<<"g","2">>, <<" ">>), Label(<<"g","1">>, <<" ","H","o","m","e"," ">>) >>,
    << Label(<<"g","1">>, None), Label(None, <<"L","o","s","t">>) >> }

Documents ==
  { [labels |-> ls, cards |-> cs] :
      ls \in LabelSets,
      cs \in UNION { [1..k -> CardPool] : k \in 0..MaxCards } }

TempDirName == <<"/","t","m","p","/","o","p","_","i","m","p","o","r","t","_","0">>

Args(vault, dir, tag_groups, dry_run) ==
  [vault |-> vault, category |-> <<"l","o","g","i","n">>, attachments_dir |-> dir,
   tag_groups |-> tag_groups, dry_run |-> dry_run]

Configs ==
  { Args(None, None, FALSE, FALSE),
    Args(None, None, TRUE, TRUE),
    Args(<<"P","r","i","v","a","t","e">>, <<"o","u","t">>, TRUE, FALSE),
    Args(<<"P","r","i","v","a","t","e">>, <<"o","u","t">>, FALSE, TRUE) }

\* what `op item create` can answer: exit status and standard output
OpResults ==
  { [returncode |-> 0, stdout |-> <<"I","D",":"," ","x","1","\n">>],
    [returncode |-> 0, stdout |-> <<"\n">>],
    [returncode |-> 1, stdout |-> <<>>] }

\* ------------------------------------------------------------------ state
VARIABLES
  doc,             \* the parsed export (root)
  args,            \* the parsed command line
  pc,              \* position of main
  cards,           \* root.findall("./card"): positions in doc.cards
  groups,          \* label id -> name
  attachments_dir, \* directory the attachments are written to
  temp_dir_ctx,    \* the TemporaryDirectory, or None
  dirs,            \* directories that exist on disk
  fs,              \* attachment files on disk: path -> bytes
  card_i,          \* position of the card loop in cards
  title, pool, assignments, tags, url_value,  \* locals of the card loop
  att_i,           \* position of the image / file loop
  running,         \* `op` processes started and not yet exited
  items,           \* items created in 1Password
  stdout,          \* lines printed
  events,          \* externally visible effects, in order
  calls,           \* arguments of each run_op_create_item call
  exc,             \* exception propagating out of main, or None
  ret,             \* return value of main, or None
  cf_name, cf_type \* argument and result of custom_field_type_for

vars ==
  << doc, args, pc, cards, groups, attachments_dir, temp_dir_ctx, dirs, fs,
     card_i, title, pool, assignments, tags, url_value, att_i, running, items,
     stdout, events, calls, exc, ret, cf_name, cf_type >>

mainVars ==
  << doc, args, pc, cards, groups, attachments_dir, temp_dir_ctx, dirs, fs,
     card_i, title, pool, assignments, tags, url_value, att_i, running, items,
     stdout, events, calls, exc, ret >>

\* ---------------------------------------------------------------- helpers
OrEmpty(x) == IF x = None THEN <<>> ELSE x

\* truthiness of an optional string
Truthy(x) == x # None /\ x # <<>>

print(a, b) == a \o <<" ">> \o b

\* card.findall("./tag"): positions of the matching children still in the
\* card, in document order
findall(children, positions, tag) ==
  SelectSeq(positions, LAMBDA p : children[p].tag = tag)

\* card.find("./field[@type='...']"): the first match, or 0
find_field(children, positions, type) ==
  LET m == SelectSeq(positions,
             LAMBDA p : children[p].tag = "field" /\ children[p].type = type) IN
  IF m = <<>> THEN 0 ELSE m[1]

\* card.find("./tag"): the first match, or 0
find(children, positions, tag) ==
  LET m == findall(children, positions, tag) IN
  IF m = <<>> THEN 0 ELSE m[1]

\* card.remove(element)
remove(positions, p) == SelectSeq(positions, LAMBDA q : q # p)

Positions(card) == [i \in 1..Len(card.children) |-> i]

\* line 178: card.attrib.get("title", "").strip() or "Untitled"
CardTitle(card) ==
  LET t == strip(OrEmpty(card.title)) IN
  IF t = <<>> THEN <<"U","n","t","i","t","l","e","d">> ELSE t

\* line 174: (card.attrib.get("title") or "Untitled").strip()
SkippedTitle(card) ==
  strip(IF Truthy(card.title) THEN card.title ELSE <<"U","n","t","i","t","l","e","d">>)

\* line 159: the dict comprehension over root.findall("./label"); a later
\* label with the same id replaces an earlier one
GroupsOf(labels) ==
  [id \in {labels[i].id : i \in 1..Len(labels)} |->
     LET last == CHOOSE i \in 1..Len(labels) :
                   /\ labels[i].id = id
                   /\ \A j \in 1..Len(labels) : labels[j].id = id => j <= i
     IN OrEmpty(labels[last].name)]

\* lines 213-222: the remaining <field> entries become custom fields
RECURSIVE CustomFields(_, _)
CustomFields(children, positions) ==
  IF positions = <<>> THEN <<>>
  ELSE LET field == children[Head(positions)]
           name == strip(OrEmpty(field.name))
           value == OrEmpty(field.text)
           escaped_label == escape_assignment_name(<<"S",":">> \o name)
           field_type == custom_field_type_for(name)
           rest == CustomFields(children, Tail(positions))
       IN IF name = <<>> \/ is_blank(value) THEN rest
          ELSE <<escaped_label \o <<"[">> \o field_type \o <<"]","=">> \o value>> \o rest

\* lines 228-234: every named field of a template card stubbed with "-"
RECURSIVE TemplateStubs(_, _)
TemplateStubs(children, positions) ==
  IF positions = <<>> THEN <<>>
  ELSE LET field == children[Head(positions)]
           name == strip(OrEmpty(field.name))
           escaped_label == escape_assignment_name(<<"S",":">> \o name)
           rest == TemplateStubs(children, Tail(positions))
       IN IF name = <<>> THEN rest
          ELSE <<escaped_label \o <<"[","t","e","x","t","]","=","-">>>> \o rest

TransformKeepingWebsite(card, tag_groups, grps) ==
  LET ch == card.children
      all == Positions(card)
      login == find_field(ch, all, "login")
      password == find_field(ch, all, "password")
      website == find_field(ch, all, "website")
      notes == find(ch, all, "notes")
      group_id == find(ch, all, "label_id")
      hasLogin == login # 0 /\ Truthy(ch[login].text)
      hasPassword == password # 0 /\ Truthy(ch[password].text)
      hasNotes == notes # 0 /\ Truthy(ch[notes].text)
      hasUrl == website # 0 /\ Truthy(ch[website].text)
      pool1 == IF hasLogin THEN remove(all, login) ELSE all
      pool2 == IF hasPassword THEN remove(pool1, password) ELSE pool1
      pool3 == pool2
      fields == findall(ch, pool3, "field")
      isTemplate == card.template = "true"
      known == group_id # 0 /\ ch[group_id].text \in DOMAIN grps
      gname == IF tag_groups /\ known THEN strip(grps[ch[group_id].text]) ELSE <<>>
  IN [ assignments |->
         (IF hasLogin THEN <<<<"u","s","e","r","n","a","m","e","=">> \o ch[login].text>> ELSE <<>>)
         \o (IF hasPassword THEN <<<<"p","a","s","s","w","o","r","d","=">> \o ch[password].text>> ELSE <<>>)
         \o (IF hasNotes THEN <<<<"n","o","t","e","s","P","l","a","i","n","=">> \o ch[notes].text>> ELSE <<>>)
         \o CustomFields(ch, fields)
         \o (IF isTemplate THEN TemplateStubs(ch, fields) ELSE <<>>),
       url_value |-> IF hasUrl THEN strip(ch[website].text) ELSE None,
       tags |-> (IF isTemplate THEN <<<<"T","e","m","p","l","a","t","e","s">>>> ELSE <<>>)
                \o (IF gname # <<>> THEN <<gname>> ELSE <<>>),
       pool |-> pool3 ]

\* lines 181-240: the assignments, URL and tags of one card, and the children
\* left in the card
Transform(card, tag_groups, grps) ==
  LET ch == card.children
      all == Positions(card)
      login == find_field(ch, all, "login")
      password == find_field(ch, all, "password")
      website == find_field(ch, all, "website")
      notes == find(ch, all, "notes")
      group_id == find(ch, all, "label_id")
      hasLogin == login # 0 /\ Truthy(ch[login].text)
      hasPassword == password # 0 /\ Truthy(ch[password].text)
      hasNotes == notes # 0 /\ Truthy(ch[notes].text)
      hasUrl == website # 0 /\ Truthy(ch[website].text)
      pool1 == IF hasLogin THEN remove(all, login) ELSE all
      pool2 == IF hasPassword THEN remove(pool1, password) ELSE pool1
      pool3 == IF website # 0 THEN remove(pool2, website) ELSE pool2
      fields == findall(ch, pool3, "field")
      isTemplate == card.template = "true"
      known == group_id # 0 /\ ch[group_id].text \in DOMAIN grps
      gname == IF tag_groups /\ known THEN strip(grps[ch[group_id].text]) ELSE <<>>
  IN [ assignments |->
         (IF hasLogin THEN <<<<"u","s","e","r","n","a","m","e","=">> \o ch[login].text>> ELSE <<>>)
         \o (IF hasPassword THEN <<<<"p","a","s","s","w","o","r","d","=">> \o ch[password].text>> ELSE <<>>)
         \o (IF hasNotes THEN <<<<"n","o","t","e","s","P","l","a","i","n","=">> \o ch[notes].text>> ELSE <<>>)
         \o CustomFields(ch, fields)
         \o (IF isTemplate THEN TemplateStubs(ch, fields) ELSE <<>>),
       url_value |-> IF hasUrl THEN strip(ch[website].text) ELSE None,
       tags |-> (IF isTemplate THEN <<<<"T","e","m","p","l","a","t","e","s">>>> ELSE <<>>)
                \o (IF gname # <<>> THEN <<gname>> ELSE <<>>),
       pool |-> pool3 ]

\* -------------------------------------------------- process_attachment
\* The outcome of one call: "none" (returns False), "ok" (returns True after
\* writing the file), or the exception it raises.
process_attachment(dir, element, filename, auto_detect_ext, prefix, index) ==
  LET b64 == strip(OrEmpty(element.text))
      decoded == decode_base64_payload(b64)
      data == decoded.data
      ext == IF auto_detect_ext THEN guess_extension(data) ELSE <<>>
      safe_name == IF Truthy(filename) THEN safe_filename(filename)
                   ELSE safe_filename(prefix \o <<"_">> \o IntToStr(index)) \o ext
      out_path == dir \o <<"/">> \o safe_name
      attach_name == escape_assignment_name(safe_name)
  IN IF b64 = <<>> THEN [status |-> "none"]
     ELSE IF ~decoded.ok THEN [status |-> "binascii.Error"]
     ELSE IF safe_name \in {<<".">>, <<".",".">>} THEN [status |-> "IsADirectoryError"]
     ELSE [status |-> "ok", out_path |-> out_path, data |-> data,
           assignment |-> attach_name \o <<"[","f","i","l","e","]","=">> \o out_path]

\* Path.write_bytes
write_bytes(files, path, data) ==
  [p \in DOMAIN files \cup {path} |-> IF p = path THEN data ELSE files[p]]

\* --------------------------------------------------- run_op_create_item
\* lines 112-121: the command line
OpCmd(vault, category, t, url, tgs, assigns) ==
  <<<<"o","p">>, <<"i","t","e","m">>, <<"c","r","e","a","t","e">>, <<"-","-","c","a","t","e","g","o","r","y">>, category, <<"-","-","t","i","t","l","e">>, t>>
  \o (IF Truthy(vault) THEN <<<<"-","-","v","a","u","l","t">>, vault>> ELSE <<>>)
  \o (IF Truthy(url) THEN <<<<"-","-","u","r","l">>, url>> ELSE <<>>)
  \o (IF tgs # <<>> THEN <<<<"-","-","t","a","g","s">>, Join(<<",">>, tgs)>> ELSE <<>>)
  \o assigns

Event(kind, card, elem, path) ==
  [kind |-> kind, card |-> card, elem |-> elem, path |-> path]

\* ------------------------------------------------------------------- Init
Init ==
  /\ doc \in Documents
  /\ args \in Configs
  /\ pc = "remove_deleted"
  /\ cards = <<>>
  /\ groups = <<>>
  /\ attachments_dir = None
  /\ temp_dir_ctx = None
  /\ dirs = {}
  /\ fs = <<>>
  /\ card_i = 0
  /\ title = None
  /\ pool = <<>>
  /\ assignments = <<>>
  /\ tags = <<>>
  /\ url_value = None
  /\ att_i = 0
  /\ running = {}
  /\ items = <<>>
  /\ stdout = <<>>
  /\ events = <<>>
  /\ calls = <<>>
  /\ exc = NoExc
  /\ ret = <<>>
  /\ cf_name = <<>>
  /\ cf_type = <<>>

\* ----------------------------------------------------------------- main
RemoveDeletedLogOnly ==
  /\ pc = "remove_deleted"
  /\ LET all == [i \in 1..Len(doc.cards) |-> i]
         deleted == SelectSeq(all, LAMBDA i : doc.cards[i].deleted = "true")
     IN /\ cards' = all
        /\ stdout' = stdout \o
             [k \in 1..Len(deleted) |->
                print(<<"R","e","m","o","v","e","d",":">>,
                      IF doc.cards[deleted[k]].title = None THEN <<"<","n","o"," ","t","i","t","l","e",">">>
                      ELSE doc.cards[deleted[k]].title)]
  /\ pc' = "groups"
  /\ UNCHANGED << doc, args, groups, attachments_dir, temp_dir_ctx, dirs, fs,
                  card_i, title, pool, assignments, tags, url_value, att_i,
                  running, items, events, calls, exc, ret, cf_name, cf_type >>

\* lines 153-156: remove the deleted cards from the root
RemoveDeleted ==
  /\ pc = "remove_deleted"
  /\ LET all == [i \in 1..Len(doc.cards) |-> i]
         deleted == SelectSeq(all, LAMBDA i : doc.cards[i].deleted = "true")
     IN /\ cards' = SelectSeq(all, LAMBDA i : doc.cards[i].deleted # "true")
        /\ stdout' = stdout \o
             [k \in 1..Len(deleted) |->
                print(<<"R","e","m","o","v","e","d",":">>,
                      IF doc.cards[deleted[k]].title = None THEN <<"<","n","o"," ","t","i","t","l","e",">">>
                      ELSE doc.cards[deleted[k]].title)]
  /\ pc' = "groups"
  /\ UNCHANGED << doc, args, groups, attachments_dir, temp_dir_ctx, dirs, fs,
                  card_i, title, pool, assignments, tags, url_value, att_i,
                  running, items, events, calls, exc, ret, cf_name, cf_type >>

\* line 159: label.attrib["id"] raises KeyError for a label without id
BuildGroups ==
  /\ pc = "groups"
  /\ IF \E i \in 1..Len(doc.labels) : doc.labels[i].id = None
       THEN /\ exc' = "KeyError"
            /\ pc' = "exited"
            /\ UNCHANGED groups
       ELSE /\ groups' = GroupsOf(doc.labels)
            /\ pc' = "attach_dir"
            /\ UNCHANGED exc
  /\ UNCHANGED << doc, args, cards, attachments_dir, temp_dir_ctx, dirs, fs,
                  card_i, title, pool, assignments, tags, url_value, att_i,
                  running, items, stdout, events, calls, ret, cf_name, cf_type >>

\* lines 162-168
SetupAttachmentsDir ==
  /\ pc = "attach_dir"
  /\ IF Truthy(args.attachments_dir)
       THEN /\ attachments_dir' = args.attachments_dir
            /\ temp_dir_ctx' = None
            /\ dirs' = dirs \cup {args.attachments_dir}
       ELSE /\ temp_dir_ctx' = TempDirName
            /\ attachments_dir' = TempDirName
            /\ dirs' = dirs \cup {TempDirName}
  /\ card_i' = 1
  /\ pc' = "loop"
  /\ UNCHANGED << doc, args, cards, groups, fs, title, pool, assignments,
                  tags, url_value, att_i, running, items, stdout, events,
                  calls, exc, ret, cf_name, cf_type >>

CurrentCard == doc.cards[cards[card_i]]

\* lines 172-176: template cards are skipped
SkipTemplate ==
  /\ pc = "loop"
  /\ card_i <= Len(cards)
  /\ CurrentCard.template = "true"
  /\ title' = SkippedTitle(CurrentCard)
  /\ stdout' = Append(stdout, print(<<"S","k","i","p","p","i","n","g"," ","t","e","m","p","l","a","t","e"," ","c","a","r","d",":">>, title'))
  /\ card_i' = card_i + 1
  /\ UNCHANGED << doc, args, pc, cards, groups, attachments_dir, temp_dir_ctx,
                  dirs, fs, pool, assignments, tags, url_value, att_i, running,
                  items, events, calls, exc, ret, cf_name, cf_type >>

\* lines 178-240: the known fields, the custom fields and the tags of a card
TransformCard ==
  /\ pc = "loop"
  /\ card_i <= Len(cards)
  /\ CurrentCard.template # "true"
  /\ title' = CardTitle(CurrentCard)
  /\ stdout' = Append(stdout, print(<<"I","m","p","o","r","t","i","n","g"," ","c","a","r","d",":">>, title'))
  /\ LET t == Transform(CurrentCard, args.tag_groups, groups) IN
       /\ assignments' = t.assignments
       /\ url_value' = t.url_value
       /\ tags' = t.tags
       /\ pool' = t.pool
  /\ att_i' = 1
  /\ pc' = "images"
  /\ UNCHANGED << doc, args, cards, groups, attachments_dir, temp_dir_ctx,
                  dirs, fs, card_i, running, items, events, calls, exc, ret,
                  cf_name, cf_type >>

Images == findall(CurrentCard.children, Positions(CurrentCard), "image")
Files == findall(CurrentCard.children, Positions(CurrentCard), "file")

\* what one attachment does to main: nothing, a written file with its
\* assignment and the node removed, or an exception leaving the loop
Attach(elem, r) ==
  IF r.status = "none"
    THEN /\ att_i' = att_i + 1
         /\ UNCHANGED << fs, assignments, pool, events, exc, pc >>
  ELSE IF r.status = "ok"
    THEN /\ fs' = write_bytes(fs, r.out_path, r.data)
         /\ assignments' = Append(assignments, r.assignment)
         /\ pool' = remove(pool, elem)
         /\ events' = Append(events, Event("write", cards[card_i], elem, r.out_path))
         /\ att_i' = att_i + 1
         /\ UNCHANGED << exc, pc >>
  ELSE /\ exc' = r.status
       /\ pc' = "finally"
       /\ UNCHANGED << fs, assignments, pool, events, att_i >>

\* lines 243-253: one iteration of the image loop
AttachImage ==
  /\ pc = "images"
  /\ att_i <= Len(Images)
  /\ Attach(Images[att_i],
            process_attachment(attachments_dir, CurrentCard.children[Images[att_i]],
                               None, TRUE, title, att_i))
  /\ UNCHANGED << doc, args, cards, groups, attachments_dir, temp_dir_ctx,
                  dirs, card_i, title, tags, url_value, running, items, stdout,
                  calls, ret, cf_name, cf_type >>

\* line 243: the image loop is exhausted
ImagesDone ==
  /\ pc = "images"
  /\ att_i > Len(Images)
  /\ att_i' = 1
  /\ pc' = "files"
  /\ UNCHANGED << doc, args, cards, groups, attachments_dir, temp_dir_ctx,
                  dirs, fs, card_i, title, pool, assignments, tags, url_value,
                  running, items, stdout, events, calls, exc, ret, cf_name,
                  cf_type >>

\* lines 256-265: one iteration of the file loop
AttachFile ==
  /\ pc = "files"
  /\ att_i <= Len(Files)
  /\ LET file_elem == CurrentCard.children[Files[att_i]]
         stripped == strip(OrEmpty(file_elem.name))
         filename == IF stripped # <<>> THEN stripped
                     ELSE <<"f","i","l","e","_">> \o IntToStr(att_i)
     IN Attach(Files[att_i],
               process_attachment(attachments_dir, file_elem, filename, FALSE,
                                  <<>>, 1))
  /\ UNCHANGED << doc, args, cards, groups, attachments_dir, temp_dir_ctx,
                  dirs, card_i, title, tags, url_value, running, items, stdout,
                  calls, ret, cf_name, cf_type >>

\* line 256: the file loop is exhausted
FilesDone ==
  /\ pc = "files"
  /\ att_i > Len(Files)
  /\ pc' = "create"
  /\ UNCHANGED << doc, args, cards, groups, attachments_dir, temp_dir_ctx,
                  dirs, fs, card_i, title, pool, assignments, tags, url_value,
                  att_i, running, items, stdout, events, calls, exc, ret,
                  cf_name, cf_type >>

Call(card, vault, category, t, url, tgs, assigns, dry_run) ==
  [card |-> card, vault |-> vault, category |-> category, title |-> t,
   url |-> url, tags |-> tgs, assignments |-> assigns, dry_run |-> dry_run]

CreateItemNoWait ==
  /\ pc = "create"
  /\ calls' = Append(calls, Call(cards[card_i], args.vault, args.category, title,
                                 url_value, tags, assignments, args.dry_run))
  /\ LET cmd == OpCmd(args.vault, args.category, title, url_value, tags,
                      assignments)
     IN IF args.dry_run
          THEN /\ stdout' = Append(stdout, print(<<"D","R","Y"," ","R","U","N",":">>, Join(<<" ">>, cmd)))
               /\ card_i' = card_i + 1
               /\ pc' = "loop"
               /\ UNCHANGED << running, events >>
          ELSE /\ running' = running \cup {[card |-> cards[card_i], cmd |-> cmd]}
               /\ events' = Append(events, Event("spawn", cards[card_i], 0, <<>>))
               /\ card_i' = card_i + 1
               /\ pc' = "loop"
               /\ UNCHANGED stdout
  /\ UNCHANGED << doc, args, cards, groups, attachments_dir, temp_dir_ctx,
                  dirs, fs, title, pool, assignments, tags, url_value, att_i,
                  items, exc, ret, cf_name, cf_type >>

CreateItemIgnoringDryRun ==
  /\ pc = "create"
  /\ calls' = Append(calls, Call(cards[card_i], args.vault, args.category, title,
                                 url_value, tags, assignments, args.dry_run))
  /\ LET cmd == OpCmd(args.vault, args.category, title, url_value, tags,
                      assignments)
     IN IF FALSE
          THEN /\ stdout' = Append(stdout, print(<<"D","R","Y"," ","R","U","N",":">>, Join(<<" ">>, cmd)))
               /\ card_i' = card_i + 1
               /\ pc' = "loop"
               /\ UNCHANGED << running, events >>
          ELSE /\ running' = running \cup {[card |-> cards[card_i], cmd |-> cmd]}
               /\ events' = Append(events, Event("spawn", cards[card_i], 0, <<>>))
               /\ pc' = "waiting"
               /\ UNCHANGED << stdout, card_i >>
  /\ UNCHANGED << doc, args, cards, groups, attachments_dir, temp_dir_ctx,
                  dirs, fs, title, pool, assignments, tags, url_value, att_i,
                  items, exc, ret, cf_name, cf_type >>

\* lines 267-275 and 110-128: run_op_create_item up to the start of `op`
CreateItem ==
  /\ pc = "create"
  /\ calls' = Append(calls, Call(cards[card_i], args.vault, args.category, title,
                                 url_value, tags, assignments, args.dry_run))
  /\ LET cmd == OpCmd(args.vault, args.category, title, url_value, tags,
                      assignments)
     IN IF args.dry_run
          THEN /\ stdout' = Append(stdout, print(<<"D","R","Y"," ","R","U","N",":">>, Join(<<" ">>, cmd)))
               /\ card_i' = card_i + 1
               /\ pc' = "loop"
               /\ UNCHANGED << running, events >>
          ELSE /\ running' = running \cup {[card |-> cards[card_i], cmd |-> cmd]}
               /\ events' = Append(events, Event("spawn", cards[card_i], 0, <<>>))
               /\ pc' = "waiting"
               /\ UNCHANGED << stdout, card_i >>
  /\ UNCHANGED << doc, args, cards, groups, attachments_dir, temp_dir_ctx,
                  dirs, fs, title, pool, assignments, tags, url_value, att_i,
                  items, exc, ret, cf_name, cf_type >>

OpReturnsUnchecked ==
  /\ pc = "waiting"
  /\ \E proc \in running, res \in OpResults :
       /\ proc.card = cards[card_i]
       /\ running' = running \ {proc}
       /\ events' = Append(events,
            Event(IF res.returncode = 0 THEN "exit_ok" ELSE "exit_failed",
                  proc.card, 0, <<>>))
       /\ IF FALSE
            THEN /\ exc' = "RuntimeError"
                 /\ pc' = "finally"
                 /\ UNCHANGED << items, stdout, card_i >>
            ELSE /\ items' = Append(items, proc)
                 /\ stdout' = IF strip(res.stdout) # <<>>
                                THEN Append(stdout, strip(res.stdout))
                                ELSE stdout
                 /\ card_i' = card_i + 1
                 /\ pc' = "loop"
                 /\ UNCHANGED exc
  /\ UNCHANGED << doc, args, cards, groups, attachments_dir, temp_dir_ctx,
                  dirs, fs, title, pool, assignments, tags, url_value, att_i,
                  calls, ret, cf_name, cf_type >>

\* lines 128-135: subprocess.run returns once `op` has exited
OpReturns ==
  /\ pc = "waiting"
  /\ \E proc \in running, res \in OpResults :
       /\ proc.card = cards[card_i]
       /\ running' = running \ {proc}
       /\ events' = Append(events,
            Event(IF res.returncode = 0 THEN "exit_ok" ELSE "exit_failed",
                  proc.card, 0, <<>>))
       /\ IF res.returncode # 0
            THEN /\ exc' = "RuntimeError"
                 /\ pc' = "finally"
                 /\ UNCHANGED << items, stdout, card_i >>
            ELSE /\ items' = Append(items, proc)
                 /\ stdout' = IF strip(res.stdout) # <<>>
                                THEN Append(stdout, strip(res.stdout))
                                ELSE stdout
                 /\ card_i' = card_i + 1
                 /\ pc' = "loop"
                 /\ UNCHANGED exc
  /\ UNCHANGED << doc, args, cards, groups, attachments_dir, temp_dir_ctx,
                  dirs, fs, title, pool, assignments, tags, url_value, att_i,
                  calls, ret, cf_name, cf_type >>

\* lines 277-278: every card has been handled
Complete ==
  /\ pc = "loop"
  /\ card_i > Len(cards)
  /\ stdout' = Append(stdout, <<"C","o","m","p","l","e","t","e">>)
  /\ ret' = <<0>>
  /\ pc' = "finally"
  /\ UNCHANGED << doc, args, cards, groups, attachments_dir, temp_dir_ctx,
                  dirs, fs, card_i, title, pool, assignments, tags, url_value,
                  att_i, running, items, events, calls, exc, cf_name, cf_type >>

\* TemporaryDirectory.cleanup(): the directory and everything in it
IsUnder(path, dir) ==
  Len(path) > Len(dir) + 1 /\ SubSeq(path, 1, Len(dir) + 1) = dir \o <<"/">>

FinallyOnReturnOnly ==
  /\ pc = "finally"
  /\ IF temp_dir_ctx # None /\ exc = NoExc
       THEN /\ dirs' = dirs \ {temp_dir_ctx}
            /\ fs' = [p \in {q \in DOMAIN fs : ~IsUnder(q, temp_dir_ctx)} |-> fs[p]]
       ELSE UNCHANGED << dirs, fs >>
  /\ pc' = "exited"
  /\ UNCHANGED << doc, args, cards, groups, attachments_dir, temp_dir_ctx,
                  card_i, title, pool, assignments, tags, url_value, att_i,
                  running, items, stdout, events, calls, exc, ret, cf_name,
                  cf_type >>

\* lines 279-281: the finally clause, on return and on exception alike
Finally ==
  /\ pc = "finally"
  /\ IF temp_dir_ctx # None
       THEN /\ dirs' = dirs \ {temp_dir_ctx}
            /\ fs' = [p \in {q \in DOMAIN fs : ~IsUnder(q, temp_dir_ctx)} |-> fs[p]]
       ELSE UNCHANGED << dirs, fs >>
  /\ pc' = "exited"
  /\ UNCHANGED << doc, args, cards, groups, attachments_dir, temp_dir_ctx,
                  card_i, title, pool, assignments, tags, url_value, att_i,
                  running, items, stdout, events, calls, exc, ret, cf_name,
                  cf_type >>

Next ==
  \/ RemoveDeleted
  \/ BuildGroups
  \/ SetupAttachmentsDir
  \/ SkipTemplate
  \/ TransformCard
  \/ AttachImage
  \/ ImagesDone
  \/ AttachFile
  \/ FilesDone
  \/ CreateItem
  \/ OpReturns
  \/ Complete
  \/ Finally

Spec == Init /\ [][Next]_vars

\* --------------------------------- custom_field_type_for on its own inputs
Tokens ==
  { <<"e","m","a","i","l">>, <<"P","a","s","s","w","o","r","d">>, <<"P","I","N">>, <<"p","i","n">>, <<"s","e","c","r","e","t">>, <<"w","e","b","s","i","t","e">>,
    <<"s">>, <<"1">>, <<" ">>, <<"-">> }

RECURSIVE Concat(_)
Concat(parts) == IF parts = <<>> THEN <<>> ELSE Head(parts) \o Concat(Tail(parts))

FieldNames ==
  { Concat(ts) : ts \in UNION { [1..k -> Tokens] : k \in 0..MaxTokens } }

InitClassify ==
  /\ doc = [labels |-> <<>>, cards |-> <<>>]
  /\ args = Args(None, None, FALSE, TRUE)
  /\ pc = "classify"
  /\ cards = <<>>
  /\ groups = <<>>
  /\ attachments_dir = None
  /\ temp_dir_ctx = None
  /\ dirs = {}
  /\ fs = <<>>
  /\ card_i = 0
  /\ title = None
  /\ pool = <<>>
  /\ assignments = <<>>
  /\ tags = <<>>
  /\ url_value = None
  /\ att_i = 0
  /\ running = {}
  /\ items = <<>>
  /\ stdout = <<>>
  /\ events = <<>>
  /\ calls = <<>>
  /\ exc = NoExc
  /\ ret = <<>>
  /\ cf_name \in FieldNames
  /\ cf_type = <<>>

\* line 221: field_type = custom_field_type_for(name)
Classify ==
  /\ pc = "classify"
  /\ cf_type = <<>>
  /\ cf_type' = custom_field_type_for(cf_name)
  /\ UNCHANGED << mainVars, cf_name >>

NextClassify == Classify

SpecClassify == InitClassify /\ [][NextClassify]_vars

\* ====================================================== properties
IsDeleted(i) == doc.cards[i].deleted = "true"
IsTemplate(i) == doc.cards[i].template = "true"

\* the cards the loop transforms, in document order
ProcessedCards ==
  SelectSeq([i \in 1..Len(doc.cards) |-> i],
            LAMBDA i : ~IsDeleted(i) /\ ~IsTemplate(i))

CalledCards == [k \in 1..Len(calls) |-> calls[k].card]

NormalExit == pc = "exited" /\ exc = NoExc

StrictlyIncreasing(s) == \A i, j \in 1..Len(s) : i < j => s[i] < s[j]

IsExit(e) == e.kind \in {"exit_ok", "exit_failed"}

\* C1: invocations are issued one at a time and in document order: at most
\* one `op` process is in flight, a started process is the last visible effect
\* until its exit is observed (no file is written and no other process is
\* started in between), effects and invocations follow the order of the cards,
\* no card is invoked twice, and a run that completes has invoked every
\* processed card exactly once.
C1_Sequential ==
  /\ Cardinality(running) <= 1
  /\ \A i \in 1..Len(events) :
       events[i].kind = "spawn" =>
         IF i = Len(events)
           THEN \E p \in running : p.card = events[i].card
           ELSE IsExit(events[i + 1]) /\ events[i + 1].card = events[i].card
  /\ (running # {} => events # <<>> /\ events[Len(events)].kind = "spawn")
  /\ \A i, j \in 1..Len(events) : i < j => events[i].card <= events[j].card
  /\ StrictlyIncreasing(CalledCards)
  /\ (NormalExit => CalledCards = ProcessedCards)

C1_Witness ==
  \E i, j, k \in 1..Len(events) :
    /\ i < j /\ j < k
    /\ events[i].kind = "exit_ok"
    /\ events[j].kind = "write" /\ events[j].card > events[i].card
    /\ events[k].kind = "exit_ok" /\ events[k].card = events[j].card

HasUndecodable(i) ==
  \E c \in 1..Len(doc.cards[i].children) :
    LET e == doc.cards[i].children[c] IN
    /\ e.tag \in {"image", "file"}
    /\ strip(OrEmpty(e.text)) # <<>>
    /\ ~decode_base64_payload(strip(OrEmpty(e.text))).ok

\* C2: a card flagged deleted="true" is dropped before anything else: once
\* the removal pass has run it is no longer in the root and its "Removed" line
\* is printed; it is never passed to run_op_create_item, no file is written
\* and no process is started for it, and an exception from an attachment or
\* from `op` never comes from it.
C2_DeletedDropped ==
  \A i \in 1..Len(doc.cards) :
    IsDeleted(i) =>
      /\ i \notin Range(CalledCards)
      /\ \A k \in 1..Len(events) : events[k].card # i
      /\ \A p \in running \cup Range(items) : p.card # i
      /\ (pc # "remove_deleted" =>
            /\ i \notin Range(cards)
            /\ print(<<"R","e","m","o","v","e","d",":">>, doc.cards[i].title) \in Range(stdout))
      /\ (exc \in {"binascii.Error", "IsADirectoryError", "RuntimeError"} =>
            cards[card_i] # i)
      /\ (exc = "binascii.Error" => HasUndecodable(cards[card_i]))

C2_Witness ==
  /\ NormalExit
  /\ \E i \in 1..Len(doc.cards) : IsDeleted(i) /\ HasUndecodable(i)
  /\ calls # <<>>

NamedFields(card) ==
  SelectSeq(card.children,
            LAMBDA e : e.tag = "field" /\ strip(OrEmpty(e.name)) # <<>>)

StubFor(e) == escape_assignment_name(<<"S",":">> \o strip(e.name)) \o <<"[","t","e","x","t","]","=","-">>

\* C3: every non-deleted template card gets an item tagged "Templates" in
\* which each named field is the text assignment name[text]=- .
C3_TemplateStubbed ==
  NormalExit =>
    \A i \in 1..Len(doc.cards) :
      (~IsDeleted(i) /\ IsTemplate(i)) =>
        \E k \in 1..Len(calls) :
          /\ calls[k].card = i
          /\ <<"T","e","m","p","l","a","t","e","s">> \in Range(calls[k].tags)
          /\ \A e \in Range(NamedFields(doc.cards[i])) :
               StubFor(e) \in Range(calls[k].assignments)

UsesTempDir == ~Truthy(args.attachments_dir)

\* C4: without --attachments-dir the temporary directory is gone in every
\* terminated state of main, whether main returned or an exception left it,
\* and it exists for as long as the card loop runs, in particular while an
\* invocation is pending.
C4_TempDirRemoved ==
  UsesTempDir =>
    /\ (pc = "exited" =>
          /\ TempDirName \notin dirs
          /\ \A p \in DOMAIN fs : ~IsUnder(p, TempDirName))
    /\ ((pc \in {"loop", "images", "files", "create", "waiting"} \/ running # {}) =>
          /\ temp_dir_ctx = TempDirName
          /\ TempDirName \in dirs)

C4_Witness ==
  /\ UsesTempDir
  /\ pc = "exited"
  /\ exc = "RuntimeError"
  /\ \E k \in 1..Len(events) : events[k].kind = "write"

\* C5: the first failure ends the run and nothing is rolled back: a failed
\* `op` exit is the last effect of the run and its card the last one passed to
\* run_op_create_item; no card is passed to run_op_create_item unless every
\* payload of it and of the processed cards before it decodes; an exception
\* leaves only the finally clause to run; every successful exit has its item.
C5_AbortNoRollback ==
  /\ \A i \in 1..Len(events) :
       events[i].kind = "exit_failed" =>
         /\ i = Len(events)
         /\ calls[Len(calls)].card = events[i].card
         /\ exc = "RuntimeError"
  /\ \A k \in 1..Len(calls) :
       \A j \in Range(ProcessedCards) :
         j <= calls[k].card => ~HasUndecodable(j)
  /\ (exc # NoExc => pc \in {"finally", "exited"})
  /\ \A i \in 1..Len(events) :
       events[i].kind = "exit_ok" =>
         \E n \in 1..Len(items) : items[n].card = events[i].card

C5_Witness ==
  /\ pc = "exited"
  /\ exc = "RuntimeError"
  /\ items # <<>>
  /\ Len(calls) = Len(items) + 1

DryRunLines == SelectSeq(stdout, LAMBDA l : startswith(l, <<"D","R","Y"," ","R","U","N",":">>))

CmdOfCall(c) ==
  <<<<"o","p">>, <<"i","t","e","m">>, <<"c","r","e","a","t","e">>, <<"-","-","c","a","t","e","g","o","r","y">>, c.category, <<"-","-","t","i","t","l","e">>, c.title>>
  \o (IF c.vault \notin {None, <<>>} THEN <<<<"-","-","v","a","u","l","t">>, c.vault>> ELSE <<>>)
  \o (IF c.url \notin {None, <<>>} THEN <<<<"-","-","u","r","l">>, c.url>> ELSE <<>>)
  \o (IF Len(c.tags) > 0 THEN <<<<"-","-","t","a","g","s">>, Join(<<",">>, c.tags)>> ELSE <<>>)
  \o c.assignments

\* C6: with --dry-run no process is ever started and no item is created, and
\* each call of run_op_create_item prints its command exactly once; the
\* command printed is the one a run without --dry-run starts for the same
\* arguments: flags and assignments in the same order.
C6_DryRun ==
  /\ args.dry_run =>
       /\ running = {}
       /\ items = <<>>
       /\ \A k \in 1..Len(events) : events[k].kind = "write"
       /\ DryRunLines =
            [k \in 1..Len(calls) |->
               <<"D","R","Y"," ","R","U","N",":"," ">> \o Join(<<" ">>, CmdOfCall(calls[k]))]
  /\ ~args.dry_run =>
       /\ DryRunLines = <<>>
       /\ \A p \in running \cup Range(items) :
            \E k \in 1..Len(calls) :
              calls[k].card = p.card /\ p.cmd = CmdOfCall(calls[k])

C6_Witness ==
  /\ args.dry_run
  /\ NormalExit
  /\ Len(calls) >= 2
  /\ \E k \in 1..Len(calls) : calls[k].tags # <<>>

BankCalls == {k \in 1..Len(calls) : doc.cards[calls[k].card] = BankCard}

BankPath == attachments_dir \o <<"/","B","a","n","k","_","1",".","p","n","g">>

\* the command line of the Bank scenario, with the given PIN assignment
BankCmd(pin) ==
  <<<<"o","p">>, <<"i","t","e","m">>, <<"c","r","e","a","t","e">>, <<"-","-","c","a","t","e","g","o","r","y">>, <<"l","o","g","i","n">>, <<"-","-","t","i","t","l","e">>, <<"B","a","n","k">>,
    <<"-","-","u","r","l">>, <<"h","t","t","p","s",":","/","/","b","a","n","k",".","e","x","a","m","p","l","e">>,
    <<"u","s","e","r","n","a","m","e","=","a","l","i","c","e">>, <<"p","a","s","s","w","o","r","d","=","s","3","c","r","3","t">>, pin,
    <<"B","a","n","k","_","1","\\",".","p","n","g","[","f","i","l","e","]","=">> \o BankPath>>

\* C7 as stated: the Bank card yields username=alice, password=s3cr3t,
\* S\.PIN[password]=1234 and one [file] assignment pointing to a .png file, in
\* that order, with --category login --title Bank --url https://bank.example
C7_Original ==
  \A k \in BankCalls :
    calls[k].vault = None =>
      CmdOfCall(calls[k]) = BankCmd(<<"S","\\",".","P","I","N","[","p","a","s","s","w","o","r","d","]","=","1","2","3","4">>)

\* C7: the Bank card yields username=alice, password=s3cr3t,
\* S:PIN[password]=1234 and Bank_1\.png[file]=<attachments dir>/Bank_1.png, in
\* that order, the URL https://bank.example and the command
\* op item create --category login --title Bank --url https://bank.example
\* followed by the assignments; without --vault there is no --vault flag, and
\* there is no --tags flag; the file named holds the PNG bytes; the command is
\* the one printed or started.
C7_BankScenario ==
  \A k \in BankCalls :
    /\ calls[k].url = <<"h","t","t","p","s",":","/","/","b","a","n","k",".","e","x","a","m","p","l","e">>
    /\ calls[k].tags = <<>>
    /\ calls[k].assignments =
         <<<<"u","s","e","r","n","a","m","e","=","a","l","i","c","e">>, <<"p","a","s","s","w","o","r","d","=","s","3","c","r","3","t">>, <<"S",":","P","I","N","[","p","a","s","s","w","o","r","d","]","=","1","2","3","4">>,
           <<"B","a","n","k","_","1","\\",".","p","n","g","[","f","i","l","e","]","=">> \o BankPath>>
    /\ (calls[k].vault = None =>
          /\ CmdOfCall(calls[k]) = BankCmd(<<"S",":","P","I","N","[","p","a","s","s","w","o","r","d","]","=","1","2","3","4">>)
          /\ IF args.dry_run
               THEN (<<"D","R","Y"," ","R","U","N",":"," ">> \o Join(<<" ">>, BankCmd(<<"S",":","P","I","N","[","p","a","s","s","w","o","r","d","]","=","1","2","3","4">>)))
                      \in Range(stdout)
               ELSE \/ \E p \in running \cup Range(items) :
                         p.card = calls[k].card
                         /\ p.cmd = BankCmd(<<"S",":","P","I","N","[","p","a","s","s","w","o","r","d","]","=","1","2","3","4">>)
                    \/ \E e \in Range(events) :
                         e.kind = "exit_failed" /\ e.card = calls[k].card)
    /\ (pc = "waiting" /\ calls[k].card = cards[card_i] =>
          fs[BankPath] = PNG_MAGIC)

C7_Witness ==
  \E k \in BankCalls :
    /\ calls[k].vault = None
    /\ \E p \in Range(items) : p.card = calls[k].card

\* --- C8
HasSub(n, sub) ==
  \E i \in 1..Len(n) :
    i + Len(sub) - 1 <= Len(n) /\ SubSeq(n, i, i + Len(sub) - 1) = sub

PinDelimited(n) ==
  \E i \in 1..Len(n) :
    /\ i + 2 <= Len(n)
    /\ <<n[i], n[i + 1], n[i + 2]>> = <<"p","i","n">>
    /\ (i > 1 => ~IsLowerAlnum(n[i - 1]))
    /\ (i + 3 <= Len(n) => ~IsLowerAlnum(n[i + 3]))

\* C8: the type of a field name, trimmed and lower-cased, is that of the
\* first rule that matches: "email" inside -> email; "password" or "secret"
\* inside, or "pin" with no letter or digit on either side -> password;
\* "website" inside -> url; otherwise text.  A name with both "email" and
\* "password" is an email.
C8_Precedence ==
  cf_type # <<>> =>
    LET n == lower(strip(cf_name))
        r1 == HasSub(n, <<"e","m","a","i","l">>)
        r2 == HasSub(n, <<"p","a","s","s","w","o","r","d">>) \/ PinDelimited(n) \/ HasSub(n, <<"s","e","c","r","e","t">>)
        r3 == HasSub(n, <<"w","e","b","s","i","t","e">>)
    IN /\ (r1 => cf_type = <<"e","m","a","i","l">>)
       /\ (~r1 /\ r2 => cf_type = <<"p","a","s","s","w","o","r","d">>)
       /\ (~r1 /\ ~r2 /\ r3 => cf_type = <<"u","r","l">>)
       /\ (~r1 /\ ~r2 /\ ~r3 => cf_type = <<"t","e","x","t">>)

C8_Witness ==
  /\ cf_type = <<"e","m","a","i","l">>
  /\ HasSub(lower(cf_name), <<"p","a","s","s","w","o","r","d">>)
  /\ HasSub(lower(cf_name), <<"p","i","n">>)

\* --- C9
KnownTypes == {"login", "password", "website"}

IsKnownField(e) == e.tag = "field" /\ e.type \in KnownTypes

\* the custom assignment of a field starts with its escaped label and "["
CustomPrefix(e) ==
  escape_assignment_name(<<"S",":">> \o strip(OrEmpty(e.name))) \o <<"[">>

EmittedAsCustom(e, assigns) ==
  /\ strip(OrEmpty(e.name)) # <<>>
  /\ \E a \in Range(assigns) : startswith(a, CustomPrefix(e))

InCardLoop == pc \in {"images", "files", "create", "waiting"}

\* C9 as stated: no field of declared type login, password or website, a
\* second one of a type and one with empty text included, is in the pool when
\* the custom fields are built, and none becomes an "S:" assignment.
C9_Original ==
  /\ InCardLoop =>
       \A p \in Range(pool) : ~IsKnownField(CurrentCard.children[p])
  /\ \A k \in 1..Len(calls) :
       \A e \in Range(doc.cards[calls[k].card].children) :
         IsKnownField(e) => ~EmittedAsCustom(e, calls[k].assignments)

IsFirstOfType(children, p) ==
  /\ IsKnownField(children[p])
  /\ \A q \in 1..(p - 1) :
       ~(children[q].tag = "field" /\ children[q].type = children[p].type)

\* C9: the first field of each declared type login, password and website
\* never becomes an "S:" assignment: the first website field is always out of
\* the pool, the first login and the first password field are out of the pool
\* when they have text (with no text they stay and are skipped as blank).  A
\* later field of the same declared type stays in the pool.
C9_FirstKnownConsumed ==
  /\ InCardLoop =>
       \A p \in 1..Len(CurrentCard.children) :
         LET e == CurrentCard.children[p] IN
         /\ (IsFirstOfType(CurrentCard.children, p) =>
               (p \in Range(pool) <=> (e.type # "website" /\ ~Truthy(e.text))))
         /\ (IsKnownField(e) /\ ~IsFirstOfType(CurrentCard.children, p) =>
               p \in Range(pool))
  /\ \A k \in 1..Len(calls) :
       LET ch == doc.cards[calls[k].card].children IN
       \A p \in 1..Len(ch) :
         IsFirstOfType(ch, p) => ~EmittedAsCustom(ch[p], calls[k].assignments)

C9_Witness ==
  \E k \in 1..Len(calls) :
    /\ doc.cards[calls[k].card] = DupCard
    /\ EmittedAsCustom(DupCard.children[3], calls[k].assignments)
    /\ ~EmittedAsCustom(DupCard.children[2], calls[k].assignments)

\* --- C10
ImageWrites(card) ==
  {k \in 1..Len(events) :
     /\ events[k].kind = "write"
     /\ events[k].card = card
     /\ doc.cards[card].children[events[k].elem].tag = "image"}

\* C10: the files written for the images of one card have pairwise different
\* paths, and while the card's invocation is pending each of them holds the
\* decoded bytes of its own image.
C10_DistinctImagePaths ==
  \A c \in 1..Len(doc.cards) :
    /\ \A i, j \in ImageWrites(c) : i # j => events[i].path # events[j].path
    /\ (pc = "waiting" /\ cards[card_i] = c =>
          \A i \in ImageWrites(c) :
            fs[events[i].path] =
              decode_base64_payload(
                strip(doc.cards[c].children[events[i].elem].text)).data)

====
